---- MODULE Spec2Model ----
(***************************************************************************)
(* Model of docs/_scripts/notebook_hooks.py: the regex-driven rewrites of  *)
(* a page's markdown (_highlight_code_blocks, _apply_conditional_rendering,*)
(* _add_path_to_code_blocks, _on_page_markdown_with_config) and the        *)
(* redirect stubs written by on_post_build / _write_html.                  *)
(*                                                                         *)
(* A text is a sequence of tokens; each token is a string and the text the *)
(* program sees is the concatenation of its tokens.  The tokens are chosen *)
(* so that a regular expression of the source matches the concatenation    *)
(* exactly where the token-level definitions below match the sequence:     *)
(* a word token consists of \w characters only, a whitespace token is one  *)
(* blank or one tab, and every other token starts with a character that is *)
(* neither \w nor whitespace.                                              *)
(***************************************************************************)
EXTENDS Integers, Sequences, FiniteSets, TLC

VARIABLES
    markdown,         \* the text being rewritten (a sequence of tokens)
    orig,             \* the text the run started from
    prev,             \* the text before the last operation
    ops,              \* the operations applied so far, in order
    parts,            \* how orig was put together, for a text built from blocks
    target_language,  \* the selector of _apply_conditional_rendering
    outcome,          \* none, returned, or the error raised
    pc,               \* the statement _on_page_markdown_with_config is at
    options,          \* DISABLED, the keyword arguments and the environment
    use_directory_urls, \* config.get of use_directory_urls in on_post_build
    next_entry,       \* the index of the REDIRECT_MAP item the loop is at
    fs_dirs,          \* the directories that exist under site_dir
    fs_files,         \* the redirect stubs written: stub path -> target url
    wpc               \* per concurrent writer: its position in _write_html

textvars == <<markdown, orig, prev, ops, parts, target_language, outcome>>
pagevars == <<pc, options>>
sitevars == <<use_directory_urls, next_entry, fs_dirs, fs_files, wpc>>
vars == <<markdown, orig, prev, ops, parts, target_language, outcome, pc, options,
          use_directory_urls, next_entry, fs_dirs, fs_files, wpc>>

----------------------------------------------------------------------------
(* Tokens *)

SP == " "
TAB == "\t"
NL == "\n"
\* the three backticks of a fence (a TLA+ string cannot hold a backtick, so the
\* token is written by name; it is one token wherever the text has three backticks)
FENCE == "[BACKTICKS]"
COLONS == ":::"
QUOTE == "\""
EQ == "="
DOT == "."
PyMarker == "# highlight-next-line"
JsMarker == "// highlight-next-line"
\* an embedded base64 image, one token: no other token holds its opening ![
IMAGE == "![i](data:image/png;base64,AAAA)"

\* [ \t]
Blank == {SP, TAB}
\* the characters str.strip / str.rstrip / \s remove or match
Whitespace == {SP, TAB, NL}
\* tokens that start with a character outside \w and outside whitespace
OtherTokens == {FENCE, COLONS, QUOTE, EQ, DOT, PyMarker, JsMarker, IMAGE}

\* \w
IsWord(t) == t \notin Whitespace /\ t \notin OtherTokens

Min(S) == CHOOSE x \in S : \A y \in S : x <= y

\* the length of the longest run of tokens satisfying a class, from p on
BlankRun(s, p) ==
    Min({j \in p..Len(s) + 1 : j = Len(s) + 1 \/ s[j] \notin Blank}) - p
SpaceRun(s, p) ==
    Min({j \in p..Len(s) + 1 : j = Len(s) + 1 \/ s[j] # SP}) - p
WordRun(s, p) ==
    Min({j \in p..Len(s) + 1 : j = Len(s) + 1 \/ ~IsWord(s[j])}) - p
WhitespaceRun(s, p) ==
    Min({j \in p..Len(s) + 1 : j = Len(s) + 1 \/ s[j] \notin Whitespace}) - p

\* [^\n]*\n : the index of the first newline at or after p, 0 when none
NextNL(s, p) ==
    IF \E j \in p..Len(s) : s[j] = NL
    THEN Min({j \in p..Len(s) : s[j] = NL})
    ELSE 0

\* (?:.*\n)*? : the positions at which a run of whole lines from q0 can end
LineStarts(s, q0) == {q0} \cup {j + 1 : j \in {i \in q0..Len(s) : s[i] = NL}}

\* a in b, for token sequences
Contains(b, a) ==
    \E i \in 1..(Len(b) - Len(a) + 1) : SubSeq(b, i, i + Len(a) - 1) = a

\* str.rstrip()
RECURSIVE rstrip(_)
rstrip(s) ==
    IF s # <<>> /\ s[Len(s)] \in Whitespace
    THEN rstrip(SubSeq(s, 1, Len(s) - 1))
    ELSE s

\* str.split(sep): the pieces between the separators, one more than the
\* separators
SplitOn(s, sep) ==
    LET at == {i \in 1..Len(s) : s[i] = sep}
        n == Cardinality(at)
        \* the index of the k-th separator; 0 for k = 0, Len(s) + 1 for k = n + 1
        nth[k \in 0..n + 1] ==
            IF k = 0 THEN 0
            ELSE IF k = n + 1 THEN Len(s) + 1
            ELSE CHOOSE i \in at : Cardinality({j \in at : j < i}) = k - 1
    IN  [k \in 1..n + 1 |-> SubSeq(s, nth[k - 1] + 1, nth[k] - 1)]

\* code_block.split on a newline
split(s) == SplitOn(s, NL)

\* str.join on a newline
RECURSIVE join(_)
join(lines) ==
    IF lines = <<>> THEN <<>>
    ELSE IF Len(lines) = 1 THEN lines[1]
    ELSE lines[1] \o <<NL>> \o join(Tail(lines))

\* not line.strip()
IsBlankLine(line) == \A i \in 1..Len(line) : line[i] \in Whitespace

----------------------------------------------------------------------------
(* The fence pattern, code_block_pattern, shared by _highlight_code_blocks *)
(* and _add_path_to_code_blocks.  The pattern is searched, not anchored:   *)
(* a match may start at any position p, its indent group being the blanks  *)
(* that lie between p and the backticks.                                   *)

\* the line starts at which (?P=indent)``` closes the fence opened at p
FenceClosers(s, p) ==
    LET k == BlankRun(s, p)
        w == WordRun(s, p + k + 1)
        h == NextNL(s, p + k + 1 + w)
    IN  {q \in LineStarts(s, h + 1) :
            /\ q + k <= Len(s)
            /\ SubSeq(s, q, q + k - 1) = SubSeq(s, p, p + k - 1)
            /\ s[q + k] = FENCE}

\* whether code_block_pattern matches at position p
FenceMatches(s, p) ==
    LET k == BlankRun(s, p)
        w == WordRun(s, p + k + 1)
    IN  /\ p + k <= Len(s)
        /\ s[p + k] = FENCE
        /\ w >= 1
        /\ NextNL(s, p + k + 1 + w) # 0
        /\ FenceClosers(s, p) # {}

\* the match object of code_block_pattern at p: its groups and its span
code_block_pattern(s, p) ==
    LET k == BlankRun(s, p)
        w == WordRun(s, p + k + 1)
        a == p + k + 1 + w
        h == NextNL(s, a)
        q == Min(FenceClosers(s, p))
    IN  [start |-> p,
         stop |-> q + k,
         indent |-> SubSeq(s, p, p + k - 1),
         language |-> SubSeq(s, p + k + 1, a - 1),
         attributes |-> SubSeq(s, a + SpaceRun(s, a), h - 1),
         code |-> SubSeq(s, h + 1, q - 1),
         group0 |-> SubSeq(s, p, q + k)]

\* the successive non-overlapping matches re.sub visits, from pos on
RECURSIVE FenceFinditer(_, _)
FenceFinditer(s, pos) ==
    LET starts == {p \in pos..Len(s) : FenceMatches(s, p)}
    IN  IF starts = {} THEN <<>>
        ELSE LET m == code_block_pattern(s, Min(starts))
             IN  <<m>> \o FenceFinditer(s, m.stop + 1)

\* pattern.sub(repl, s): every match ms[i] replaced by repl's result for it,
\* outs[i], and the text between the matches kept
Sub(s, ms, outs) ==
    LET n == Len(ms)
        upto[i \in 0..n] ==
            IF i = 0
            THEN SubSeq(s, 1, IF n = 0 THEN Len(s) ELSE ms[1].start - 1)
            ELSE upto[i - 1] \o outs[i]
                 \o SubSeq(s, ms[i].stop + 1,
                           IF i = n THEN Len(s) ELSE ms[i + 1].start - 1)
    IN  upto[n]

----------------------------------------------------------------------------
(* _highlight_code_blocks *)

HlToken == "hl_lines"

comment_syntax(language) ==
    IF language \in {<<"py">>, <<"python">>} THEN PyMarker ELSE JsMarker

\* while lines and not lines[0].strip(): lines.pop(0)
RECURSIVE SkipInitialEmpty(_)
SkipInitialEmpty(lines) ==
    IF lines # <<>> /\ IsBlankLine(lines[1])
    THEN SkipInitialEmpty(Tail(lines))
    ELSE lines

HasMarker(line, marker) == \E i \in 1..Len(line) : line[i] = marker

\* the lines of the loop that go to lines_to_keep, in order
lines_to_keep(lines, marker) ==
    SelectSeq(lines, LAMBDA l : ~HasMarker(l, marker))

\* a slip: the marker line itself counted among the lines before the target
MarkerCountWithMarker(kept) == kept + 2

\* count = len(lines_to_keep) + 1 at a marker line
MarkerCount(kept) == kept + 1

\* a slip: the position of the marker line in the body recorded instead of
\* the count of the lines kept before it
highlighted_lines_positions(lines, marker) ==
    LET idx == {i \in 1..Len(lines) : HasMarker(lines[i], marker)}
        n == Cardinality(idx)
        at[k \in 0..n] ==
            IF k = 0 THEN 0 ELSE Min({i \in idx : i > at[k - 1]})
    IN  [k \in 1..n |-> ToString(at[k])]

\* highlighted_lines: for each marker line, in order, the count at that time
highlighted_lines(lines, marker) ==
    LET idx == {i \in 1..Len(lines) : HasMarker(lines[i], marker)}
        n == Cardinality(idx)
        at[k \in 0..n] ==
            IF k = 0 THEN 0 ELSE Min({i \in idx : i > at[k - 1]})
        count(i) ==
            MarkerCount(Cardinality({j \in 1..i - 1 : j \notin idx}))
    IN  [k \in 1..n |-> ToString(count(at[k]))]

\* the numbers of highlighted_lines joined by single blanks
RECURSIVE JoinSpace(_)
JoinSpace(nums) ==
    IF nums = <<>> THEN <<>>
    ELSE IF Len(nums) = 1 THEN <<nums[1]>>
    ELSE <<nums[1], SP>> \o JoinSpace(Tail(nums))

\* the hl_lines attribute appended to the opening fence: a blank, hl_lines=, and
\* the quoted numbers
HlAttribute(nums) == <<SP, HlToken, EQ, QUOTE>> \o JoinSpace(nums) \o <<QUOTE>>

\* a slip: a newline added after the rebuilt block, which already ends in one
replace_highlight_comments_newline(m) ==
    LET attributes == rstrip(m.attributes)
        lines == SkipInitialEmpty(split(m.code))
        marker == comment_syntax(m.language)
        highlighted == highlighted_lines(lines, marker)
        new_code_block == join(lines_to_keep(lines, marker))
        opening_fence ==
            <<FENCE>> \o m.language
            \o (IF attributes # <<>> THEN <<SP>> \o attributes ELSE <<>>)
            \o (IF highlighted # <<>> THEN HlAttribute(highlighted) ELSE <<>>)
    IN  IF Contains(attributes, <<HlToken>>)
        THEN m.group0
        ELSE m.indent \o opening_fence \o <<NL>> \o new_code_block \o <<NL>>
             \o m.indent \o <<FENCE>>

replace_highlight_comments(m) ==
    LET attributes == rstrip(m.attributes)
        lines == SkipInitialEmpty(split(m.code))
        marker == comment_syntax(m.language)
        highlighted == highlighted_lines(lines, marker)
        new_code_block == join(lines_to_keep(lines, marker))
        opening_fence ==
            <<FENCE>> \o m.language
            \o (IF attributes # <<>> THEN <<SP>> \o attributes ELSE <<>>)
            \o (IF highlighted # <<>> THEN HlAttribute(highlighted) ELSE <<>>)
    IN  IF Contains(attributes, <<HlToken>>)
        THEN m.group0
        ELSE m.indent \o opening_fence \o <<NL>> \o new_code_block
             \o m.indent \o <<FENCE>>

_highlight_code_blocks(s) ==
    LET ms == FenceFinditer(s, 1)
    IN  Sub(s, ms, [i \in DOMAIN ms |-> replace_highlight_comments(ms[i])])

----------------------------------------------------------------------------
(* _add_path_to_code_blocks *)

ExecOn == <<"exec", EQ, QUOTE, "on", QUOTE>>

\* page.file.src_path of the page being built: p.ipynb for a notebook page,
\* p.md for a markdown page
src_path(ipynb) == IF ipynb THEN <<"p", DOT, "ipynb">> ELSE <<"p", DOT, "md">>

\* the page handed to _add_path_to_code_blocks, as far as the code reads it
Page(ipynb) == [src_path |-> src_path(ipynb)]

\* the path attribute appended to the opening fence
PathAttribute(page) == <<SP, "path", EQ, QUOTE>> \o page.src_path \o <<QUOTE>>

replace_code_block_header(m, page) ==
    LET attributes == rstrip(m.attributes)
    IN  IF ~Contains(attributes, ExecOn)
        THEN m.group0
        ELSE m.indent \o <<FENCE>> \o m.language \o <<SP>> \o attributes
             \o PathAttribute(page) \o <<NL>> \o m.code \o m.indent \o <<FENCE>>

_add_path_to_code_blocks(s, page) ==
    LET ms == FenceFinditer(s, 1)
    IN  Sub(s, ms, [i \in DOMAIN ms |-> replace_code_block_header(ms[i], page)])

----------------------------------------------------------------------------
(* _apply_conditional_rendering *)

\* \s*\n after the language: \s* is greedy and also takes newlines, so the
\* header ends at the last newline of the whitespace run; 0 when the run
\* holds no newline
CondHeaderEnd(s, a) ==
    LET r == WhitespaceRun(s, a)
        nls == {j \in a..a + r - 1 : s[j] = NL}
    IN  IF nls = {} THEN 0 ELSE CHOOSE j \in nls : \A i \in nls : i <= j

\* the line starts at which (?P=indent)[ \t]*::: closes the block opened at p
CondClosers(s, p) ==
    LET k == BlankRun(s, p)
        w == WordRun(s, p + k + 1)
        h == CondHeaderEnd(s, p + k + 1 + w)
    IN  {q \in LineStarts(s, h + 1) :
            LET r == BlankRun(s, q)
            IN  /\ r >= k
                /\ q + r <= Len(s)
                /\ SubSeq(s, q, q + k - 1) = SubSeq(s, p, p + k - 1)
                /\ s[q + r] = COLONS}

\* whether the conditional pattern matches at position p
CondMatches(s, p) ==
    LET k == BlankRun(s, p)
        w == WordRun(s, p + k + 1)
    IN  /\ p + k <= Len(s)
        /\ s[p + k] = COLONS
        /\ w >= 1
        /\ CondHeaderEnd(s, p + k + 1 + w) # 0
        /\ CondClosers(s, p) # {}

\* the match object of the conditional pattern at p
pattern(s, p) ==
    LET k == BlankRun(s, p)
        w == WordRun(s, p + k + 1)
        h == CondHeaderEnd(s, p + k + 1 + w)
        q == Min(CondClosers(s, p))
        e == q + BlankRun(s, q)
    IN  [start |-> p,
         stop |-> e,
         indent |-> SubSeq(s, p, p + k - 1),
         language |-> SubSeq(s, p + k + 1, p + k + w),
         content |-> SubSeq(s, h + 1, q - 1),
         group0 |-> SubSeq(s, p, e)]

RECURSIVE CondFinditer(_, _)
CondFinditer(s, pos) ==
    LET starts == {p \in pos..Len(s) : CondMatches(s, p)}
    IN  IF starts = {} THEN <<>>
        ELSE LET m == pattern(s, Min(starts))
             IN  <<m>> \o CondFinditer(s, m.stop + 1)

\* the selectors _apply_conditional_rendering accepts
Selectors == {"python", "js"}

\* a slip: a block with an unrecognised tag treated as a block of the other
\* language
replace_conditional_blocks_recognised_only(m, target) ==
    IF m.language = <<target>> THEN m.content ELSE <<>>

replace_conditional_blocks(m, target) ==
    IF  m.language \notin {<<"python">>, <<"js">>}
    THEN m.group0
    ELSE IF m.language = <<target>>
    THEN m.content
    ELSE <<>>

\* processed = pattern.sub(replace_conditional_blocks, md_text)
ConditionalSub(s, target) ==
    LET ms == CondFinditer(s, 1)
    IN  Sub(s, ms, [i \in DOMAIN ms |-> replace_conditional_blocks(ms[i], target)])

----------------------------------------------------------------------------
(* Input texts.  A text is built from whole lines, each followed by a      *)
(* newline; the newline after the last line may be missing.                *)

\* the longest generated text, in lines
MaxLines == 3
\* the longest run of operations applied to one text
MaxOps == 2

RECURSIVE Unlines(_)
Unlines(ls) == IF ls = <<>> THEN <<>> ELSE ls[1] \o <<NL>> \o Unlines(Tail(ls))

Texts(pool) ==
    LET lists == UNION {[1..n -> pool] : n \in 0..MaxLines}
    IN  {Unlines(ls) : ls \in lists}
        \cup {join(ls) : ls \in lists}

FenceLines ==
    { <<FENCE, "python">>,
      <<SP, SP, FENCE, "python">>,
      <<FENCE>>,
      <<SP, SP, FENCE>>,
      <<>>,
      <<"x">>,
      <<"y", SP, PyMarker>>,
      <<FENCE, "python", SP>> \o ExecOn \o <<SP>>,
      <<FENCE, "js", SP, HlToken, EQ, QUOTE, "1", QUOTE>>,
      <<SP, FENCE, "js", SP, SP>>,
      <<JsMarker>> }

\* the fence of the highlight example: x = 1, a marker on the line y = 2, z = 3
ExampleFence ==
    <<FENCE, "python", NL,
      "x", SP, EQ, SP, "1", NL,
      "y", SP, EQ, SP, "2", SP, SP, PyMarker, NL,
      "z", SP, EQ, SP, "3", NL,
      FENCE, NL>>

FenceTexts == Texts(FenceLines) \cup {ExampleFence}

\* the values of the variables a specification does not use
PageIdle == pc = "idle" /\ options = <<>>
SiteIdle ==
    /\ use_directory_urls = TRUE
    /\ next_entry = 0
    /\ fs_dirs = {}
    /\ fs_files = <<>>
    /\ wpc = <<>>

----------------------------------------------------------------------------
(* The fence rewrites applied to a text, one call at a time *)

Init ==
    /\ orig \in FenceTexts
    /\ markdown = orig
    /\ prev = orig
    /\ ops = <<>>
    /\ parts = <<>>
    /\ target_language = "python"
    /\ outcome = "none"
    /\ PageIdle
    /\ SiteIdle

\* markdown = _highlight_code_blocks(markdown)
Highlight ==
    /\ pc = "idle"
    /\ Len(ops) < MaxOps
    /\ markdown' = _highlight_code_blocks(markdown)
    /\ prev' = markdown
    /\ ops' = Append(ops, "highlight")
    /\ UNCHANGED <<orig, parts, target_language, outcome, pagevars, sitevars>>

\* markdown = _add_path_to_code_blocks(markdown, page)
AddPath ==
    /\ pc = "idle"
    /\ Len(ops) < MaxOps
    /\ markdown' = _add_path_to_code_blocks(markdown, Page(FALSE))
    /\ prev' = markdown
    /\ ops' = Append(ops, "add_path")
    /\ UNCHANGED <<orig, parts, target_language, outcome, pagevars, sitevars>>

Next == Highlight \/ AddPath

Spec == Init /\ [][Next]_vars

----------------------------------------------------------------------------
(* Properties of the fence rewrites *)

LastOp == IF ops = <<>> THEN "none" ELSE ops[Len(ops)]

\* C1: a second application of _highlight_code_blocks, directly after a
\* first one, returns its input unchanged: highlight(highlight(t)) =
\* highlight(t) for every text t.
C1_HighlightIdempotent ==
    (Len(ops) >= 2 /\ ops[Len(ops)] = "highlight" /\ ops[Len(ops) - 1] = "highlight")
        => markdown = prev

\* the first application rewrote an indented fence with a marker comment, and
\* the second one has run
C1_Witness ==
    /\ ops = <<"highlight", "highlight">>
    /\ prev # orig
    /\ Contains(orig, <<SP, SP, FENCE, "python", NL, "y", SP, PyMarker>>)
    /\ Contains(prev, <<HlToken>>)

\* the text _highlight_code_blocks returns for ExampleFence when the
\* line-number attribute is n
ExampleResult(n) ==
    <<FENCE, "python">> \o HlAttribute(<<n>>) \o
    <<NL, "x", SP, EQ, SP, "1", NL, "z", SP, EQ, SP, "3", NL, FENCE, NL>>

\* C2 as claimed: for the python fence with body x = 1 / y = 2 with a marker /
\* z = 3, one application removes the marker line and emits the line-number
\* attribute 3.
C2_ExampleHighlightsLine3 ==
    (orig = ExampleFence /\ ops = <<"highlight">>) => markdown = ExampleResult("3")

\* C2 as amended: for that fence, one application removes the marker line
\* and emits the line-number attribute 2 (one retained line precedes the
\* marker, and z = 3 is the second retained line).
C2_ExampleHighlightsLine2 ==
    (orig = ExampleFence /\ ops = <<"highlight">>) => markdown = ExampleResult("2")

C2_Witness == orig = ExampleFence /\ ops = <<"highlight">> /\ markdown # orig

\* the opener of t is indented by two blanks, t has exactly one other line
\* holding three backticks, that line comes later and starts with the
\* backticks after an indentation other than two blanks
IndentMismatch(t) ==
    LET ls == split(t)
        fl == {i \in 1..Len(ls) : \E j \in 1..Len(ls[i]) : ls[i][j] = FENCE}
    IN  /\ Cardinality(fl) = 2
        /\ LET o == Min(fl)
               c == CHOOSE i \in fl : i # o
           IN  /\ Len(ls[o]) >= 4
               /\ SubSeq(ls[o], 1, 3) = <<SP, SP, FENCE>>
               /\ IsWord(ls[o][4])
               /\ BlankRun(ls[c], 1) # 2
               /\ ls[c][BlankRun(ls[c], 1) + 1] = FENCE

\* C4 as claimed: when the opener is indented by two blanks and the only later
\* backtick line is indented differently, neither rewrite
\* matches the fence: one application of either returns the text unchanged.
C4_MismatchedIndentPassesThrough ==
    (IndentMismatch(orig) /\ Len(ops) = 1) => markdown = orig

\* the number of path attributes in an attribute text
PathCount(attrs) ==
    Cardinality({i \in 1..Len(attrs) - 2 :
                    SubSeq(attrs, i, i + 2) = <<"path", EQ, QUOTE>>})

IsSuffix(a, b) ==
    Len(a) <= Len(b) /\ SubSeq(b, Len(b) - Len(a) + 1, Len(b)) = a

\* C6 as claimed: after _add_path_to_code_blocks has run, also on its own output,
\* every fence with exec=on carries exactly one path attribute, which is the
\* last attribute of its opening line.
C6_ExactlyOnePath ==
    LastOp = "add_path" =>
        \A i \in DOMAIN FenceFinditer(markdown, 1) :
            LET m == FenceFinditer(markdown, 1)[i]
            IN  Contains(m.attributes, ExecOn) =>
                    /\ PathCount(m.attributes) = 1
                    /\ IsSuffix(PathAttribute(Page(FALSE)), m.attributes)

----------------------------------------------------------------------------
(* _apply_conditional_rendering as a call: it raises ValueError for a       *)
(* selector it does not accept, before the pattern is looked for, and       *)
(* otherwise returns the rewritten text.                                    *)

\* a slip: an unknown selector replaced by the default one
_apply_conditional_rendering_default(s, target) ==
    [raised |-> FALSE,
     text |-> ConditionalSub(s, IF target \in Selectors THEN target ELSE "python")]

_apply_conditional_rendering(s, target) ==
    IF target \notin Selectors
    THEN [raised |-> TRUE, text |-> <<>>]
    ELSE [raised |-> FALSE, text |-> ConditionalSub(s, target)]

\* the selectors tried: the two accepted ones and one that is not
SelectorInputs == {"python", "js", "ruby"}

CondLines ==
    { <<COLONS, "python">>,
      <<COLONS, "js">>,
      <<COLONS, "rust">>,
      <<COLONS>>,
      <<SP, SP, COLONS, "python", SP>>,
      <<SP, SP, COLONS>>,
      <<"A">>,
      <<>> }

\* the bodies of the blocks of a text built from blocks, around the word w
Bodies(w) ==
    { <<w, NL>>,
      <<NL, w, NL>>,
      <<SP, SP, w, NL>>,
      <<w, NL, NL, w, NL>>,
      <<FENCE, "python", NL, w, NL, FENCE, NL>>,
      <<>> }

Outside == {<<>>, <<"t", NL>>}

Indents == {<<>>, <<SP, SP>>}

\* a text of two closed blocks, a python one with body a and a js one with
\* body b, with text before, between and after them
BlockShapes ==
    [a : Bodies("A"), b : Bodies("B"), pre : Outside, mid : Outside,
     post : Outside, indent : Indents, python_first : BOOLEAN]

Block(indent, language, body) ==
    indent \o <<COLONS, language, NL>> \o body \o indent \o <<COLONS>>

BlockText(sh) ==
    LET py == Block(sh.indent, "python", sh.a)
        js == Block(sh.indent, "js", sh.b)
    IN  sh.pre \o (IF sh.python_first THEN py ELSE js) \o <<NL>> \o sh.mid
        \o (IF sh.python_first THEN js ELSE py) \o <<NL>> \o sh.post

InitCond ==
    /\ \/ parts = <<>> /\ orig \in Texts(CondLines)
       \/ parts \in BlockShapes /\ orig = BlockText(parts)
    /\ markdown = orig
    /\ prev = orig
    /\ ops = <<>>
    /\ target_language \in SelectorInputs
    /\ outcome = "none"
    /\ PageIdle
    /\ SiteIdle

\* markdown = _apply_conditional_rendering(markdown, target_language)
ApplyConditional ==
    /\ pc = "idle"
    /\ outcome = "none"
    /\ Len(ops) < MaxOps
    /\ LET r == _apply_conditional_rendering(markdown, target_language)
       IN  /\ markdown' = IF r.raised THEN markdown ELSE r.text
           /\ outcome' = IF r.raised THEN "ValueError" ELSE "none"
    /\ prev' = markdown
    /\ ops' = Append(ops, "conditional")
    /\ UNCHANGED <<orig, parts, target_language, pagevars, sitevars>>

NextCond == ApplyConditional

SpecCond == InitCond /\ [][NextCond]_vars

----------------------------------------------------------------------------
(* Properties of _apply_conditional_rendering *)

\* the text the claim expects for a text of two blocks: the body of the block
\* of the selected language in place of that block, nothing in place of the
\* other block, the rest as it was
SelectedOnly(sh, target) ==
    LET py == IF target = "python" THEN sh.a ELSE <<>>
        js == IF target = "js" THEN sh.b ELSE <<>>
    IN  sh.pre \o (IF sh.python_first THEN py ELSE js) \o <<NL>> \o sh.mid
        \o (IF sh.python_first THEN js ELSE py) \o <<NL>> \o sh.post

\* C3 as claimed: for a text holding a closed python block with body A and a
\* closed js block with body B, one application with selector python gives A
\* in place of the python block and nothing in place of the js block, with
\* selector js the reverse, and the text outside the blocks is unchanged.
C3_SelectedBodyOnly ==
    (parts # <<>> /\ ops = <<"conditional">> /\ outcome = "none")
        => markdown = SelectedOnly(parts, target_language)

Unrecognised(m) == m.language \notin {<<"python">>, <<"js">>}

\* C8: after one application with an accepted selector, every block of the
\* input whose tag is neither python nor js is in the output as it was in the
\* input, delimiters included; when the input has no other block the output
\* is the input, whichever the selector.
C8_UnrecognisedTagVerbatim ==
    (ops = <<"conditional">> /\ outcome = "none") =>
        LET ms == CondFinditer(orig, 1)
        IN  /\ \A i \in DOMAIN ms :
                Unrecognised(ms[i]) => Contains(markdown, ms[i].group0)
            /\ (\A i \in DOMAIN ms : Unrecognised(ms[i])) => markdown = orig

\* a rust block with a body, rendered for js
C8_Witness ==
    /\ ops = <<"conditional">>
    /\ outcome = "none"
    /\ target_language = "js"
    /\ Contains(orig, <<COLONS, "rust", NL, "A", NL, COLONS>>)
    /\ CondFinditer(orig, 1) # <<>>
    /\ markdown = orig

----------------------------------------------------------------------------
(* _on_page_markdown_with_config, statement by statement.  The three       *)
(* collaborators (convert_notebook, _replace_autolinks,                    *)
(* update_markdown_with_imports) live outside this file: each either       *)
(* raises or returns some text.                                            *)

PageTexts ==
    { <<"t", NL>>,
      <<COLONS, "python", NL, "A", NL, COLONS, NL>>,
      <<IMAGE, NL, COLONS, "js", NL, "B", NL, COLONS, NL>>,
      <<FENCE, "python", SP>> \o ExecOn
          \o <<NL, "y", SP, PyMarker, NL, "x", NL, FENCE, NL>> }

\* DISABLED, the page's extension, the target_language keyword argument, the
\* TARGET_LANGUAGE environment variable and the two switches
PageOptions ==
    [disabled : BOOLEAN,
     ipynb : BOOLEAN,
     kw_target_language : {"absent", "python", "js", "ruby"},
     env_target_language : {"absent", "js", "ruby"},
     add_api_references : BOOLEAN,
     remove_base64_images : BOOLEAN]

\* kwargs.get(target_language, os.environ.get(TARGET_LANGUAGE, python))
ResolveTargetLanguage(o) ==
    IF o.kw_target_language # "absent" THEN o.kw_target_language
    ELSE IF o.env_target_language # "absent" THEN o.env_target_language
    ELSE "python"

\* re.sub of the base64 image pattern by the empty string
StripImages(s) == SelectSeq(s, LAMBDA t : t # IMAGE)

InitPage ==
    /\ orig \in PageTexts
    /\ markdown = orig
    /\ prev = orig
    /\ ops = <<>>
    /\ parts = <<>>
    /\ target_language = "unset"
    /\ outcome = "none"
    /\ pc = "start"
    /\ options \in PageOptions
    /\ SiteIdle

\* what a statement leaves alone
PageFrame == UNCHANGED <<orig, parts, options, sitevars>>

\* a statement that runs to its end: the text it leaves and the next statement
PageStep(name, text, next) ==
    /\ markdown' = text
    /\ prev' = markdown
    /\ ops' = Append(ops, name)
    /\ pc' = next
    /\ UNCHANGED <<target_language, outcome>>
    /\ PageFrame

\* a statement that raises: nothing catches it, the call ends with the error
PageRaise(name, error) ==
    /\ pc' = "raised"
    /\ outcome' = error
    /\ prev' = markdown
    /\ ops' = Append(ops, name)
    /\ UNCHANGED <<markdown, target_language>>
    /\ PageFrame

\* if DISABLED: return markdown
PageStart ==
    /\ pc = "start"
    /\ IF options.disabled
       THEN /\ pc' = "done"
            /\ outcome' = "returned"
            /\ ops' = Append(ops, "disabled")
            /\ UNCHANGED <<markdown, prev, target_language>>
            /\ PageFrame
       ELSE PageStep("start", markdown, "convert")

\* if page.file.src_path.endswith(.ipynb): markdown = convert_notebook(...)
PageConvert ==
    /\ pc = "convert"
    /\ IF options.ipynb
       THEN \/ \E t \in PageTexts : PageStep("convert", t, "target")
            \/ PageRaise("convert", "CollaboratorError")
       ELSE PageStep("convert", markdown, "target")

\* target_language = kwargs.get(...)
PageTarget ==
    /\ pc = "target"
    /\ target_language' = ResolveTargetLanguage(options)
    /\ pc' = "autolinks"
    /\ ops' = Append(ops, "target")
    /\ UNCHANGED <<markdown, prev, outcome>>
    /\ PageFrame

\* markdown = _replace_autolinks(markdown, ..., default_scope=target_language)
PageAutolinks ==
    /\ pc = "autolinks"
    /\ \/ \E t \in PageTexts : PageStep("autolinks", t, "api_references")
       \/ PageRaise("autolinks", "CollaboratorError")

\* if add_api_references: markdown = update_markdown_with_imports(...)
PageApiReferences ==
    /\ pc = "api_references"
    /\ IF options.add_api_references
       THEN \/ \E t \in PageTexts : PageStep("api_references", t, "highlight")
            \/ PageRaise("api_references", "CollaboratorError")
       ELSE PageStep("api_references", markdown, "highlight")

\* markdown = _highlight_code_blocks(markdown)
PageHighlight ==
    /\ pc = "highlight"
    /\ PageStep("highlight", _highlight_code_blocks(markdown), "conditional")

\* markdown = _apply_conditional_rendering(markdown, target_language)
PageConditional ==
    /\ pc = "conditional"
    /\ LET r == _apply_conditional_rendering(markdown, target_language)
       IN  IF r.raised
           THEN PageRaise("conditional", "ValueError")
           ELSE PageStep("conditional", r.text, "add_path")

\* markdown = _add_path_to_code_blocks(markdown, page)
PageAddPath ==
    /\ pc = "add_path"
    /\ PageStep("add_path", _add_path_to_code_blocks(markdown, Page(options.ipynb)), "return")

\* if remove_base64_images: markdown = re.sub(...); return markdown
PageReturn ==
    /\ pc = "return"
    /\ markdown' = IF options.remove_base64_images
                   THEN StripImages(markdown) ELSE markdown
    /\ prev' = markdown
    /\ ops' = Append(ops, "return")
    /\ pc' = "done"
    /\ outcome' = "returned"
    /\ UNCHANGED target_language
    /\ PageFrame

NextPage ==
    \/ PageStart
    \/ PageConvert
    \/ PageTarget
    \/ PageAutolinks
    \/ PageApiReferences
    \/ PageHighlight
    \/ PageConditional
    \/ PageAddPath
    \/ PageReturn

SpecPage == InitPage /\ [][NextPage]_vars

\* C7: a selector other than python and js makes _apply_conditional_rendering
\* end in ValueError with the text untouched, and inside
\* _on_page_markdown_with_config that error ends the call: no later statement
\* runs, nothing is returned, and no default selector takes its place.
C7_InvalidSelectorRaises ==
    /\ (LastOp = "conditional" /\ target_language \notin Selectors)
           => (pc = "raised" /\ outcome = "ValueError" /\ markdown = prev)
    /\ pc \in {"add_path", "return"} => target_language \in Selectors
    /\ (outcome = "returned" /\ ~options.disabled) => target_language \in Selectors
    /\ target_language # "unset" => target_language = ResolveTargetLanguage(options)

\* the keyword argument names an unknown language while the environment names
\* a known one, the text holds a conditional block, and the call has raised
C7_Witness ==
    /\ pc = "raised"
    /\ outcome = "ValueError"
    /\ LastOp = "conditional"
    /\ options.kw_target_language = "ruby"
    /\ options.env_target_language = "js"
    /\ CondFinditer(markdown, 1) # <<>>

----------------------------------------------------------------------------
(* Redirects: on_post_build and _write_html.  A path is a sequence of      *)
(* tokens too: names, the separator, an extension, the hash of an anchor.  *)

SLASH == "/"
HASH == "#"
DOTDOT == ".."
MD == ".md"
IPYNB == ".ipynb"
HTML == ".html"

\* REDIRECT_MAP: every item of the table, in the order of the source
REDIRECT_MAP ==
    << << <<"how-tos", SLASH, "stream-values", IPYNB>>,
          <<"how-tos", SLASH, "streaming", MD, HASH, "stream-graph-state">> >>,
       << <<"how-tos", SLASH, "stream-updates", IPYNB>>,
          <<"how-tos", SLASH, "streaming", MD, HASH, "stream-graph-state">> >>,
       << <<"how-tos", SLASH, "streaming-content", IPYNB>>,
          <<"how-tos", SLASH, "streaming", MD>> >>,
       << <<"how-tos", SLASH, "stream-multiple", IPYNB>>,
          <<"how-tos", SLASH, "streaming", MD, HASH, "stream-multiple-nodes">> >>,
       << <<"how-tos", SLASH, "streaming-tokens-without-langchain", IPYNB>>,
          <<"how-tos", SLASH, "streaming", MD, HASH, "use-with-any-llm">> >>,
       << <<"how-tos", SLASH, "streaming-from-final-node", IPYNB>>,
          <<"how-tos", SLASH, "streaming-specific-nodes", IPYNB>> >>,
       << <<"how-tos", SLASH, "streaming-events-from-within-tools-without-langchain", IPYNB>>,
          <<"how-tos", SLASH, "streaming-events-from-within-tools", IPYNB, HASH, "example-without-langchain">> >>,
       << <<"how-tos", SLASH, "state-reducers", IPYNB>>,
          <<"how-tos", SLASH, "graph-api", MD, HASH, "define-and-update-state">> >>,
       << <<"how-tos", SLASH, "sequence", IPYNB>>,
          <<"how-tos", SLASH, "graph-api", MD, HASH, "create-a-sequence-of-steps">> >>,
       << <<"how-tos", SLASH, "branching", IPYNB>>,
          <<"how-tos", SLASH, "graph-api", MD, HASH, "create-branches">> >>,
       << <<"how-tos", SLASH, "recursion-limit", IPYNB>>,
          <<"how-tos", SLASH, "graph-api", MD, HASH, "create-and-control-loops">> >>,
       << <<"how-tos", SLASH, "visualization", IPYNB>>,
          <<"how-tos", SLASH, "graph-api", MD, HASH, "visualize-your-graph">> >>,
       << <<"how-tos", SLASH, "input_output_schema", IPYNB>>,
          <<"how-tos", SLASH, "graph-api", MD, HASH, "define-input-and-output-schemas">> >>,
       << <<"how-tos", SLASH, "pass_private_state", IPYNB>>,
          <<"how-tos", SLASH, "graph-api", MD, HASH, "pass-private-state-between-nodes">> >>,
       << <<"how-tos", SLASH, "state-model", IPYNB>>,
          <<"how-tos", SLASH, "graph-api", MD, HASH, "use-pydantic-models-for-graph-state">> >>,
       << <<"how-tos", SLASH, "map-reduce", IPYNB>>,
          <<"how-tos", SLASH, "graph-api", MD, HASH, "map-reduce-and-the-send-api">> >>,
       << <<"how-tos", SLASH, "command", IPYNB>>,
          <<"how-tos", SLASH, "graph-api", MD, HASH, "combine-control-flow-and-state-updates-with-command">> >>,
       << <<"how-tos", SLASH, "configuration", IPYNB>>,
          <<"how-tos", SLASH, "graph-api", MD, HASH, "add-runtime-configuration">> >>,
       << <<"how-tos", SLASH, "node-retries", IPYNB>>,
          <<"how-tos", SLASH, "graph-api", MD, HASH, "add-retry-policies">> >>,
       << <<"how-tos", SLASH, "return-when-recursion-limit-hits", IPYNB>>,
          <<"how-tos", SLASH, "graph-api", MD, HASH, "impose-a-recursion-limit">> >>,
       << <<"how-tos", SLASH, "async", IPYNB>>,
          <<"how-tos", SLASH, "graph-api", MD, HASH, "async">> >>,
       << <<"how-tos", SLASH, "memory", SLASH, "manage-conversation-history", IPYNB>>,
          <<"how-tos", SLASH, "memory", SLASH, "add-memory", MD>> >>,
       << <<"how-tos", SLASH, "memory", SLASH, "delete-messages", IPYNB>>,
          <<"how-tos", SLASH, "memory", SLASH, "add-memory", MD, HASH, "delete-messages">> >>,
       << <<"how-tos", SLASH, "memory", SLASH, "add-summary-conversation-history", IPYNB>>,
          <<"how-tos", SLASH, "memory", SLASH, "add-memory", MD, HASH, "summarize-messages">> >>,
       << <<"how-tos", SLASH, "memory", IPYNB>>,
          <<"how-tos", SLASH, "memory", SLASH, "add-memory", MD>> >>,
       << <<"agents", SLASH, "memory", IPYNB>>,
          <<"how-tos", SLASH, "memory", SLASH, "add-memory", MD>> >>,
       << <<"how-tos", SLASH, "subgraph-transform-state", IPYNB>>,
          <<"how-tos", SLASH, "subgraph", MD, HASH, "different-state-schemas">> >>,
       << <<"how-tos", SLASH, "subgraphs-manage-state", IPYNB>>,
          <<"how-tos", SLASH, "subgraph", MD, HASH, "add-persistence">> >>,
       << <<"how-tos", SLASH, "persistence_postgres", IPYNB>>,
          <<"how-tos", SLASH, "memory", SLASH, "add-memory", MD, HASH, "use-in-production">> >>,
       << <<"how-tos", SLASH, "persistence_mongodb", IPYNB>>,
          <<"how-tos", SLASH, "memory", SLASH, "add-memory", MD, HASH, "use-in-production">> >>,
       << <<"how-tos", SLASH, "persistence_redis", IPYNB>>,
          <<"how-tos", SLASH, "memory", SLASH, "add-memory", MD, HASH, "use-in-production">> >>,
       << <<"how-tos", SLASH, "subgraph-persistence", IPYNB>>,
          <<"how-tos", SLASH, "memory", SLASH, "add-memory", MD, HASH, "use-with-subgraphs">> >>,
       << <<"how-tos", SLASH, "cross-thread-persistence", IPYNB>>,
          <<"how-tos", SLASH, "memory", SLASH, "add-memory", MD, HASH, "add-long-term-memory">> >>,
       << <<"cloud", SLASH, "how-tos", SLASH, "copy_threads">>,
          <<"cloud", SLASH, "how-tos", SLASH, "use_threads">> >>,
       << <<"cloud", SLASH, "how-tos", SLASH, "check-thread-status">>,
          <<"cloud", SLASH, "how-tos", SLASH, "use_threads">> >>,
       << <<"cloud", SLASH, "concepts", SLASH, "threads", MD>>,
          <<"concepts", SLASH, "persistence", MD, HASH, "threads">> >>,
       << <<"how-tos", SLASH, "persistence", IPYNB>>,
          <<"how-tos", SLASH, "memory", SLASH, "add-memory", MD>> >>,
       << <<"how-tos", SLASH, "tool-calling-errors", IPYNB>>,
          <<"how-tos", SLASH, "tool-calling", IPYNB, HASH, "handle-errors">> >>,
       << <<"how-tos", SLASH, "pass-config-to-tools", IPYNB>>,
          <<"how-tos", SLASH, "tool-calling", IPYNB, HASH, "access-config">> >>,
       << <<"how-tos", SLASH, "pass-run-time-values-to-tools", IPYNB>>,
          <<"how-tos", SLASH, "tool-calling", IPYNB, HASH, "read-state">> >>,
       << <<"how-tos", SLASH, "update-state-from-tools", IPYNB>>,
          <<"how-tos", SLASH, "tool-calling", IPYNB, HASH, "update-state">> >>,
       << <<"agents", SLASH, "tools", MD>>,
          <<"how-tos", SLASH, "tool-calling", MD>> >>,
       << <<"how-tos", SLASH, "agent-handoffs", IPYNB>>,
          <<"how-tos", SLASH, "multi_agent", MD, HASH, "handoffs">> >>,
       << <<"how-tos", SLASH, "multi-agent-network", IPYNB>>,
          <<"how-tos", SLASH, "multi_agent", MD, HASH, "use-in-a-multi-agent-system">> >>,
       << <<"how-tos", SLASH, "multi-agent-multi-turn-convo", IPYNB>>,
          <<"how-tos", SLASH, "multi_agent", MD, HASH, "multi-turn-conversation">> >>,
       << <<"cloud", SLASH, "index", MD>>,
          <<"index", MD>> >>,
       << <<"cloud", SLASH, "how-tos", SLASH, "index", MD>>,
          <<"concepts", SLASH, "langgraph_platform">> >>,
       << <<"cloud", SLASH, "concepts", SLASH, "api", MD>>,
          <<"concepts", SLASH, "langgraph_server", MD>> >>,
       << <<"cloud", SLASH, "concepts", SLASH, "cloud", MD>>,
          <<"concepts", SLASH, "langgraph_cloud", MD>> >>,
       << <<"cloud", SLASH, "faq", SLASH, "studio", MD>>,
          <<"concepts", SLASH, "langgraph_studio", MD, HASH, "studio-faqs">> >>,
       << <<"cloud", SLASH, "how-tos", SLASH, "human_in_the_loop_edit_state", MD>>,
          <<"cloud", SLASH, "how-tos", SLASH, "add-human-in-the-loop", MD>> >>,
       << <<"cloud", SLASH, "how-tos", SLASH, "human_in_the_loop_user_input", MD>>,
          <<"cloud", SLASH, "how-tos", SLASH, "add-human-in-the-loop", MD>> >>,
       << <<"concepts", SLASH, "platform_architecture", MD>>,
          <<"concepts", SLASH, "langgraph_cloud", HASH, "architecture">> >>,
       << <<"cloud", SLASH, "how-tos", SLASH, "stream_values", MD>>,
          <<"cloud", SLASH, "how-tos", SLASH, "streaming", MD, HASH, "stream-graph-state">> >>,
       << <<"cloud", SLASH, "how-tos", SLASH, "stream_updates", MD>>,
          <<"cloud", SLASH, "how-tos", SLASH, "streaming", MD, HASH, "stream-graph-state">> >>,
       << <<"cloud", SLASH, "how-tos", SLASH, "stream_messages", MD>>,
          <<"cloud", SLASH, "how-tos", SLASH, "streaming", MD, HASH, "messages">> >>,
       << <<"cloud", SLASH, "how-tos", SLASH, "stream_events", MD>>,
          <<"cloud", SLASH, "how-tos", SLASH, "streaming", MD, HASH, "stream-events">> >>,
       << <<"cloud", SLASH, "how-tos", SLASH, "stream_debug", MD>>,
          <<"cloud", SLASH, "how-tos", SLASH, "streaming", MD, HASH, "debug">> >>,
       << <<"cloud", SLASH, "how-tos", SLASH, "stream_multiple", MD>>,
          <<"cloud", SLASH, "how-tos", SLASH, "streaming", MD, HASH, "stream-multiple-modes">> >>,
       << <<"cloud", SLASH, "concepts", SLASH, "streaming", MD>>,
          <<"concepts", SLASH, "streaming", MD>> >>,
       << <<"agents", SLASH, "streaming", MD>>,
          <<"how-tos", SLASH, "streaming", MD>> >>,
       << <<"how-tos", SLASH, "create-react-agent", IPYNB>>,
          <<"agents", SLASH, "agents", MD, HASH, "basic-configuration">> >>,
       << <<"how-tos", SLASH, "create-react-agent-memory", IPYNB>>,
          <<"agents", SLASH, "memory", MD>> >>,
       << <<"how-tos", SLASH, "create-react-agent-system-prompt", IPYNB>>,
          <<"agents", SLASH, "context", MD, HASH, "prompts">> >>,
       << <<"how-tos", SLASH, "create-react-agent-structured-output", IPYNB>>,
          <<"agents", SLASH, "agents", MD, HASH, "structured-output">> >>,
       << <<"prebuilt", MD>>,
          <<"agents", SLASH, "prebuilt", MD>> >>,
       << <<"reference", SLASH, "prebuilt", MD>>,
          <<"reference", SLASH, "agents", MD>> >>,
       << <<"concepts", SLASH, "high_level", MD>>,
          <<"index", MD>> >>,
       << <<"concepts", SLASH, "index", MD>>,
          <<"index", MD>> >>,
       << <<"concepts", SLASH, "v0-human-in-the-loop", MD>>,
          <<"concepts", SLASH, "human-in-the-loop", MD>> >>,
       << <<"how-tos", SLASH, "index", MD>>,
          <<"index", MD>> >>,
       << <<"tutorials", SLASH, "introduction", IPYNB>>,
          <<"concepts", SLASH, "why-langgraph", MD>> >>,
       << <<"agents", SLASH, "deployment", MD>>,
          <<"tutorials", SLASH, "langgraph-platform", SLASH, "local-server", MD>> >>,
       << <<"how-tos", SLASH, "deploy-self-hosted", MD>>,
          <<"cloud", SLASH, "deployment", SLASH, "self_hosted_data_plane", MD>> >>,
       << <<"concepts", SLASH, "self_hosted", MD>>,
          <<"concepts", SLASH, "langgraph_self_hosted_data_plane", MD>> >>,
       << <<"tutorials", SLASH, "deployment", MD>>,
          <<"concepts", SLASH, "deployment_options", MD>> >>,
       << <<"cloud", SLASH, "how-tos", SLASH, "assistant_versioning", MD>>,
          <<"cloud", SLASH, "how-tos", SLASH, "configuration_cloud", MD>> >>,
       << <<"cloud", SLASH, "concepts", SLASH, "runs", MD>>,
          <<"concepts", SLASH, "assistants", MD, HASH, "execution">> >>,
       << <<"how-tos", SLASH, "wait-user-input-functional", IPYNB>>,
          <<"how-tos", SLASH, "use-functional-api", MD>> >>,
       << <<"how-tos", SLASH, "review-tool-calls-functional", IPYNB>>,
          <<"how-tos", SLASH, "use-functional-api", MD>> >>,
       << <<"how-tos", SLASH, "create-react-agent-hitl", IPYNB>>,
          <<"how-tos", SLASH, "human_in_the_loop", SLASH, "add-human-in-the-loop", MD>> >>,
       << <<"agents", SLASH, "human-in-the-loop", MD>>,
          <<"how-tos", SLASH, "human_in_the_loop", SLASH, "add-human-in-the-loop", MD>> >>,
       << <<"how-tos", SLASH, "human_in_the_loop", SLASH, "dynamic_breakpoints", IPYNB>>,
          <<"how-tos", SLASH, "human_in_the_loop", SLASH, "breakpoints", MD>> >>,
       << <<"concepts", SLASH, "breakpoints", MD>>,
          <<"concepts", SLASH, "human_in_the_loop", MD>> >>,
       << <<"how-tos", SLASH, "human_in_the_loop", SLASH, "breakpoints", MD>>,
          <<"how-tos", SLASH, "human_in_the_loop", SLASH, "add-human-in-the-loop", MD>> >>,
       << <<"cloud", SLASH, "how-tos", SLASH, "human_in_the_loop_breakpoint", MD>>,
          <<"cloud", SLASH, "how-tos", SLASH, "add-human-in-the-loop", MD>> >>,
       << <<"how-tos", SLASH, "human_in_the_loop", SLASH, "edit-graph-state", IPYNB>>,
          <<"how-tos", SLASH, "human_in_the_loop", SLASH, "time-travel", MD>> >> >>

\* the place of a key in the table
EntryOf(key) == CHOOSE i \in DOMAIN REDIRECT_MAP : REDIRECT_MAP[i][1] = key

\* for page_old, page_new in REDIRECT_MAP.items(): the key of the i-th item
page_old(i) == REDIRECT_MAP[i][1]

\* str.replace of .ipynb by .md
ReplaceIpynb(s) == [i \in DOMAIN s |-> IF s[i] = IPYNB THEN MD ELSE s[i]]

\* a slip: a value that names the page of another key of the table followed to
\* that key's value
page_new_followed(i) ==
    LET v == ReplaceIpynb(REDIRECT_MAP[i][2])
        js == {j \in DOMAIN REDIRECT_MAP : ReplaceIpynb(REDIRECT_MAP[j][1]) = v}
    IN  IF js = {} THEN REDIRECT_MAP[i][2] ELSE REDIRECT_MAP[CHOOSE j \in js : TRUE][2]

\* for page_old, page_new in REDIRECT_MAP.items(): the value of the i-th item
page_new(i) == REDIRECT_MAP[i][2]

\* str.partition on the hash: the text before the first hash, the hash, the rest
partition(s) ==
    LET at == {i \in 1..Len(s) : s[i] = HASH}
    IN  IF at = {}
        THEN [before |-> s, hash |-> <<>>, suffix |-> <<>>]
        ELSE [before |-> SubSeq(s, 1, Min(at) - 1),
              hash |-> <<HASH>>,
              suffix |-> SubSeq(s, Min(at) + 1, Len(s))]

\* the index of the last separator of a path, 0 when it has none
LastSlash(s) ==
    LET at == {i \in 1..Len(s) : s[i] = SLASH}
    IN  IF at = {} THEN 0 ELSE CHOOSE i \in at : \A j \in at : j <= i

\* posixpath.dirname, posixpath.basename
dirname(s) == SubSeq(s, 1, LastSlash(s) - 1)
basename(s) == SubSeq(s, LastSlash(s) + 1, Len(s))

\* os.path.join of two relative paths
PathJoin(a, b) == IF a = <<>> THEN b ELSE a \o <<SLASH>> \o b

\* mkdocs File.name: the stem of the file name, index for index and README
FileName(src) ==
    LET f == basename(src)
        stem == IF f # <<>> /\ f[Len(f)] \in {MD, IPYNB, HTML}
                THEN SubSeq(f, 1, Len(f) - 1) ELSE f
    IN  IF stem \in {<<"index">>, <<"README">>} THEN <<"index">> ELSE stem

\* mkdocs File.is_documentation_page: the extension is a markdown one
IsDocumentationPage(src) == src # <<>> /\ src[Len(src)] = MD

\* mkdocs File.dest_path: foo.md renders to foo/index.html with directory
\* urls and to foo.html without; index.md to index.html; other files are copied
DestPath(src, directory_urls) ==
    IF ~IsDocumentationPage(src) THEN src
    ELSE IF ~directory_urls \/ FileName(src) = <<"index">>
    THEN PathJoin(dirname(src), FileName(src) \o <<HTML>>)
    ELSE PathJoin(PathJoin(dirname(src), FileName(src)), <<"index", HTML>>)

\* mkdocs File.url: the destination path, a trailing index.html cut off under
\* directory urls
FileUrl(src, directory_urls) ==
    LET d == DestPath(src, directory_urls)
    IN  IF directory_urls /\ basename(d) = <<"index", HTML>>
        THEN (IF dirname(d) = <<>> THEN <<DOT>> ELSE dirname(d)) \o <<SLASH>>
        ELSE d

\* posixpath.normpath, as a list of components: empty components and dots
\* dropped, a double dot taking back the component before it
RECURSIVE NormFrom(_, _)
NormFrom(comps, acc) ==
    IF comps = <<>> THEN acc
    ELSE IF comps[1] \in {<<>>, <<DOT>>} THEN NormFrom(Tail(comps), acc)
    ELSE IF comps[1] = <<DOTDOT>> /\ acc # <<>> /\ acc[Len(acc)] # <<DOTDOT>>
    THEN NormFrom(Tail(comps), SubSeq(acc, 1, Len(acc) - 1))
    ELSE NormFrom(Tail(comps), Append(acc, comps[1]))

NormComponents(s) == NormFrom(SplitOn(s, SLASH), <<>>)

RECURSIVE JoinSlash(_)
JoinSlash(comps) ==
    IF comps = <<>> THEN <<>>
    ELSE IF Len(comps) = 1 THEN comps[1]
    ELSE comps[1] \o <<SLASH>> \o JoinSlash(Tail(comps))

\* posixpath.relpath(path, start) for two paths relative to the same directory
relpath(path, start) ==
    LET pl == NormComponents(path)
        sl == NormComponents(start)
        m == IF Len(pl) < Len(sl) THEN Len(pl) ELSE Len(sl)
        \* len(commonprefix([start_list, path_list]))
        i == CHOOSE k \in 0..m :
                /\ SubSeq(pl, 1, k) = SubSeq(sl, 1, k)
                /\ (k = m \/ pl[k + 1] # sl[k + 1])
        rel == [j \in 1..Len(sl) - i |-> <<DOTDOT>>] \o SubSeq(pl, i + 1, Len(pl))
    IN  IF rel = <<>> THEN <<DOT>> ELSE JoinSlash(rel)

\* a slip: the path taken relative to the stub itself, not to its directory
RedirectTargetFromStub(old, new, directory_urls) ==
    LET o == ReplaceIpynb(old)
        n == partition(ReplaceIpynb(new))
        old_html_path == DestPath(o, directory_urls)
        new_html_path == FileUrl(n.before, TRUE)
    IN  relpath(new_html_path, old_html_path) \o n.hash \o n.suffix

\* the body of the loop of on_post_build up to the call of _write_html: the
\* relative url written into the stub of old
RedirectTarget(old, new, directory_urls) ==
    LET o == ReplaceIpynb(old)
        n == partition(ReplaceIpynb(new))
        old_html_path == DestPath(o, directory_urls)
        new_html_path == FileUrl(n.before, TRUE)
    IN  relpath(new_html_path, dirname(old_html_path)) \o n.hash \o n.suffix

\* old_html_path: where the stub of old is written, below site_dir
OldHtmlPath(old, directory_urls) == DestPath(ReplaceIpynb(old), directory_urls)

\* config[site_dir]
site_dir == <<"site">>

\* a directory and the directories above it, down to its first component
Ancestors(d) ==
    {SubSeq(d, 1, i - 1) : i \in {j \in 1..Len(d) + 1 : j = Len(d) + 1 \/ d[j] = SLASH}}


\* HTML_TEMPLATE.format(url=new_path): the three places of the stub that hold
\* the url
HTML_TEMPLATE(url) == [canonical |-> url, location |-> url, refresh |-> url]

\* the directories the build may have left below site_dir before the stubs
\* are written
BuiltDirs ==
    { site_dir \o <<SLASH, "how-tos">>,
      site_dir \o <<SLASH, "cloud", SLASH, "how-tos">>,
      site_dir \o <<SLASH, "concepts">>,
      site_dir \o <<SLASH, "agents">> }

InitialSites ==
    {{site_dir} \cup UNION {Ancestors(d) : d \in built} : built \in SUBSET BuiltDirs}

TextIdle ==
    /\ markdown = <<>>
    /\ orig = <<>>
    /\ prev = <<>>
    /\ ops = <<>>
    /\ parts = <<>>
    /\ target_language = "python"
    /\ outcome = "none"

InitRedirect ==
    /\ TextIdle
    /\ PageIdle
    /\ use_directory_urls \in BOOLEAN
    /\ next_entry = 1
    /\ fs_dirs \in InitialSites
    /\ fs_files = <<>>
    /\ wpc = <<>>

\* one turn of the loop of on_post_build: the stub of the item is computed
\* and _write_html writes it, creating its directory when it is missing
PostBuildEntry ==
    /\ pc = "idle"
    /\ wpc = <<>>
    /\ next_entry \in DOMAIN REDIRECT_MAP
    /\ LET old_html_path == OldHtmlPath(page_old(next_entry), use_directory_urls)
           new_html_path ==
               RedirectTarget(page_old(next_entry), page_new(next_entry),
                              use_directory_urls)
           old_path_abs == PathJoin(site_dir, old_html_path)
           old_dir_abs == dirname(old_path_abs)
       IN  /\ fs_dirs' = IF old_dir_abs \in fs_dirs
                         THEN fs_dirs
                         ELSE fs_dirs \cup Ancestors(old_dir_abs)
           /\ fs_files' = (old_path_abs :> HTML_TEMPLATE(new_html_path)) @@ fs_files
    /\ next_entry' = next_entry + 1
    /\ UNCHANGED <<textvars, pagevars, use_directory_urls, wpc>>

NextRedirect == PostBuildEntry

SpecRedirect == InitRedirect /\ [][NextRedirect]_vars

----------------------------------------------------------------------------
(* _write_html run by concurrent writers, one stub each.  A writer is at    *)
(* exists (the test of os.path.exists), makedirs (inside os.makedirs, one   *)
(* call of os.path.exists or os.mkdir per step, for the directories above), *)
(* mkdir (the os.mkdir of the directory itself, which must not exist), open *)
(* (the stub is written), done or FileExistsError.                          *)

\* the number of concurrent writers
Writers == 2

\* the items whose stubs are written concurrently: two notebooks of how-tos,
\* the two extensionless pages of cloud/how-tos, and two notebooks of
\* how-tos/human_in_the_loop, three directories deep
WriteEntries ==
    { EntryOf(<<"how-tos", SLASH, "stream-values", IPYNB>>),
      EntryOf(<<"how-tos", SLASH, "streaming-content", IPYNB>>),
      EntryOf(<<"cloud", SLASH, "how-tos", SLASH, "copy_threads">>),
      EntryOf(<<"cloud", SLASH, "how-tos", SLASH, "check-thread-status">>),
      EntryOf(<<"how-tos", SLASH, "human_in_the_loop", SLASH, "dynamic_breakpoints", IPYNB>>),
      EntryOf(<<"how-tos", SLASH, "human_in_the_loop", SLASH, "edit-graph-state", IPYNB>>) }

InitWrite ==
    /\ TextIdle
    /\ PageIdle
    /\ use_directory_urls \in BOOLEAN
    /\ next_entry = 0
    /\ fs_dirs \in InitialSites
    /\ fs_files = <<>>
    /\ \E f \in [1..Writers -> WriteEntries] :
          /\ \A v, w \in 1..Writers : v < w => f[v] < f[w]
          /\ wpc = [w \in 1..Writers |->
                       [entry |-> f[w], at |-> "exists", names |-> <<>>,
                        descending |-> FALSE]]

old_path_abs(w) ==
    PathJoin(site_dir, OldHtmlPath(page_old(wpc[w].entry), use_directory_urls))

old_dir_abs(w) == dirname(old_path_abs(w))

WriteFrame == UNCHANGED <<textvars, pagevars, use_directory_urls, next_entry>>

\* if not os.path.exists(old_dir_abs)
WriteExists(w) ==
    /\ wpc[w].at = "exists"
    /\ wpc' = [wpc EXCEPT ![w] =
                  IF old_dir_abs(w) \in fs_dirs
                  THEN [@ EXCEPT !.at = "open"]
                  ELSE [@ EXCEPT !.at = "makedirs",
                                 !.names = <<old_dir_abs(w)>>,
                                 !.descending = TRUE]]
    /\ UNCHANGED <<fs_dirs, fs_files>>
    /\ WriteFrame

\* os.makedirs(name) on its way in: the test os.path.exists(head) of the
\* innermost call.  When the directory above is missing the call calls
\* itself for it; when it is there the mkdir calls begin.  names holds the
\* name of every call entered and not left, old_dir_abs first.
WriteMakedirsExists(w) ==
    /\ wpc[w].at = "makedirs"
    /\ wpc[w].descending
    /\ LET names == wpc[w].names
           head == dirname(names[Len(names)])
       IN  wpc' = [wpc EXCEPT ![w] =
                      IF head # <<>> /\ head \notin fs_dirs
                      THEN [@ EXCEPT !.names = Append(names, head)]
                      ELSE [@ EXCEPT !.descending = FALSE,
                                     !.at = IF Len(names) = 1
                                            THEN "mkdir" ELSE "makedirs"]]
    /\ UNCHANGED <<fs_dirs, fs_files>>
    /\ WriteFrame

\* os.makedirs on its way out: one os.mkdir of a directory above
\* old_dir_abs, made by an inner call.  A FileExistsError of an inner call
\* is caught by the call around it, so a directory that exists by now is
\* no error.
WriteMakedirs(w) ==
    /\ wpc[w].at = "makedirs"
    /\ ~wpc[w].descending
    /\ LET names == wpc[w].names
           rest == SubSeq(names, 1, Len(names) - 1)
       IN  /\ fs_dirs' = fs_dirs \cup {names[Len(names)]}
           /\ wpc' = [wpc EXCEPT ![w].names = rest,
                                 ![w].at = IF Len(rest) = 1
                                           THEN "mkdir" ELSE "makedirs"]
    /\ UNCHANGED fs_files
    /\ WriteFrame

\* os.makedirs, the outermost call: os.mkdir of old_dir_abs itself, without
\* exist_ok
WriteMkdir(w) ==
    /\ wpc[w].at = "mkdir"
    /\ IF old_dir_abs(w) \in fs_dirs
       THEN /\ wpc' = [wpc EXCEPT ![w].at = "FileExistsError"]
            /\ UNCHANGED fs_dirs
       ELSE /\ wpc' = [wpc EXCEPT ![w].at = "open", ![w].names = <<>>]
            /\ fs_dirs' = fs_dirs \cup {old_dir_abs(w)}
    /\ UNCHANGED fs_files
    /\ WriteFrame

\* with open(old_path_abs, w) as f: f.write(content)
WriteOpen(w) ==
    /\ wpc[w].at = "open"
    /\ fs_files' =
          (old_path_abs(w) :>
              HTML_TEMPLATE(RedirectTarget(page_old(wpc[w].entry),
                                           page_new(wpc[w].entry),
                                           use_directory_urls))) @@ fs_files
    /\ wpc' = [wpc EXCEPT ![w].at = "done"]
    /\ UNCHANGED fs_dirs
    /\ WriteFrame

NextWrite ==
    \E w \in DOMAIN wpc :
        \/ WriteExists(w)
        \/ WriteMakedirsExists(w)
        \/ WriteMakedirs(w)
        \/ WriteMkdir(w)
        \/ WriteOpen(w)

SpecWrite == InitWrite /\ [][NextWrite]_vars

----------------------------------------------------------------------------
(* Properties of the redirects *)

\* the path a relative url denotes when it is resolved against a directory
Resolve(dir, rel) == NormComponents(PathJoin(dir, rel))

\* the stub written for the i-th item
StubPath(i) ==
    PathJoin(site_dir, OldHtmlPath(REDIRECT_MAP[i][1], use_directory_urls))

Processed == 1..next_entry - 1

\* C5: with directory urls, the url in the stub of every item processed ends
\* with the hash and anchor of the item's value (and holds no hash when the
\* value has none), and its path part, resolved against the directory of the
\* stub, is the resource of the directory-style url of the new page.
C5_RedirectRoundTrip ==
    use_directory_urls =>
        \A i \in Processed :
            /\ StubPath(i) \in DOMAIN fs_files
            /\ LET stub == fs_files[StubPath(i)]
                   new == partition(ReplaceIpynb(REDIRECT_MAP[i][2]))
                   url == partition(stub.canonical)
               IN  /\ stub.location = stub.canonical
                   /\ stub.refresh = stub.canonical
                   /\ url.hash = new.hash
                   /\ url.suffix = new.suffix
                   /\ IsSuffix(new.hash \o new.suffix, stub.canonical)
                   /\ Resolve(dirname(StubPath(i)), url.before)
                          = NormComponents(PathJoin(site_dir, FileUrl(new.before, TRUE)))

\* the stub of cloud/concepts/threads.md, which redirects to
\* concepts/persistence.md#threads, has been written
C5_Witness ==
    /\ use_directory_urls
    /\ next_entry > EntryOf(<<"cloud", SLASH, "concepts", SLASH, "threads", MD>>)
    /\ LET stub == site_dir \o <<SLASH, "cloud", SLASH, "concepts", SLASH, "threads",
                                 SLASH, "index", HTML>>
       IN  /\ stub \in DOMAIN fs_files
           /\ fs_files[stub].canonical =
                 <<DOTDOT, SLASH, DOTDOT, SLASH, DOTDOT, SLASH, "concepts", SLASH,
                   "persistence", HASH, "threads">>

\* the two chains of the table: dynamic_breakpoints -> breakpoints ->
\* add-human-in-the-loop, and create-react-agent-memory -> agents/memory ->
\* how-tos/memory/add-memory
ChainFirst ==
    EntryOf(<<"how-tos", SLASH, "human_in_the_loop", SLASH, "dynamic_breakpoints", IPYNB>>)
ChainSecond ==
    EntryOf(<<"how-tos", SLASH, "human_in_the_loop", SLASH, "breakpoints", MD>>)
MemoryChainFirst == EntryOf(<<"how-tos", SLASH, "create-react-agent-memory", IPYNB>>)
MemoryChainSecond == EntryOf(<<"agents", SLASH, "memory", IPYNB>>)

\* C9: the stub of every item processed holds the url computed from that
\* item's own key and value; where the value is itself a key of the table
\* (A -> B, B -> C) the stub of A targets B and not C.
C9_SingleHop ==
    /\ \A i \in Processed :
          /\ StubPath(i) \in DOMAIN fs_files
          /\ fs_files[StubPath(i)].canonical =
                 RedirectTarget(REDIRECT_MAP[i][1], REDIRECT_MAP[i][2], use_directory_urls)
          /\ \A j \in DOMAIN REDIRECT_MAP :
                ReplaceIpynb(REDIRECT_MAP[j][1])
                    = partition(ReplaceIpynb(REDIRECT_MAP[i][2])).before =>
                    fs_files[StubPath(i)].canonical #
                        RedirectTarget(REDIRECT_MAP[i][1], REDIRECT_MAP[j][2],
                                       use_directory_urls)
    /\ ChainFirst \in Processed =>
          fs_files[StubPath(ChainFirst)].canonical =
              IF use_directory_urls
              THEN <<DOTDOT, SLASH, "breakpoints">>
              ELSE <<"breakpoints">>
    /\ MemoryChainFirst \in Processed =>
          fs_files[StubPath(MemoryChainFirst)].canonical =
              IF use_directory_urls
              THEN <<DOTDOT, SLASH, DOTDOT, SLASH, "agents", SLASH, "memory">>
              ELSE <<DOTDOT, SLASH, "agents", SLASH, "memory">>

\* both stubs of each chain are written: the first targets the second page,
\* the second the third
C9_Witness ==
    /\ use_directory_urls
    /\ next_entry > ChainSecond
    /\ REDIRECT_MAP[ChainFirst][2] = REDIRECT_MAP[ChainSecond][1]
    /\ fs_files[StubPath(ChainFirst)].canonical = <<DOTDOT, SLASH, "breakpoints">>
    /\ fs_files[StubPath(ChainSecond)].canonical = <<DOTDOT, SLASH, "add-human-in-the-loop">>
    /\ next_entry > MemoryChainFirst
    /\ next_entry > MemoryChainSecond
    /\ ReplaceIpynb(REDIRECT_MAP[MemoryChainFirst][2])
           = ReplaceIpynb(REDIRECT_MAP[MemoryChainSecond][1])
    /\ fs_files[StubPath(MemoryChainFirst)].canonical =
           <<DOTDOT, SLASH, DOTDOT, SLASH, "agents", SLASH, "memory">>
    /\ fs_files[StubPath(MemoryChainSecond)].canonical =
           <<DOTDOT, SLASH, DOTDOT, SLASH, "how-tos", SLASH, "memory", SLASH, "add-memory">>

\* C10 as claimed: when concurrent writers write stubs whose directory is
\* missing, no writer fails because another one created the directory in
\* the meantime, and once all have ended every stub is written.
C10_NoWriterFails ==
    /\ \A w \in DOMAIN wpc : wpc[w].at # "FileExistsError"
    /\ (\A w \in DOMAIN wpc : wpc[w].at = "done") =>
          \A w \in DOMAIN wpc : old_path_abs(w) \in DOMAIN fs_files

----------------------------------------------------------------------------
(* Fences with several marker comments: one fence per text, its body made  *)
(* of marker lines, plain lines and blank lines.                           *)

\* the longest body of a generated marker fence, in lines
MaxBody == 3

MarkerBodyLines ==
    { <<PyMarker>>, <<"x", SP, PyMarker>>, <<JsMarker>>, <<"x">>, <<"y">>, <<>> }

MarkerBodies == UNION {[1..n -> MarkerBodyLines] : n \in 1..MaxBody}

\* indent, language and attribute text of the opening line
MarkerOpeners ==
    { [indent |-> <<>>, language |-> "python", attributes |-> <<>>],
      [indent |-> <<SP, SP>>, language |-> "py",
       attributes |-> <<"linenums", EQ, QUOTE, "1", QUOTE>>],
      [indent |-> <<>>, language |-> "js", attributes |-> <<>>] }

OpeningLine(o, extra) ==
    o.indent \o <<FENCE, o.language>>
    \o (IF o.attributes # <<>> THEN <<SP>> \o o.attributes ELSE <<>>)
    \o extra

MarkerFence(o, body) ==
    Unlines(<<OpeningLine(o, <<>>)>> \o body \o <<o.indent \o <<FENCE>>>>)

InitMarkers ==
    /\ \E o \in MarkerOpeners, body \in MarkerBodies :
          /\ parts = [opener |-> o, body |-> body]
          /\ orig = MarkerFence(o, body)
    /\ markdown = orig
    /\ prev = orig
    /\ ops = <<>>
    /\ target_language = "python"
    /\ outcome = "none"
    /\ PageIdle
    /\ SiteIdle

SpecMarkers == InitMarkers /\ [][Next]_vars

\* the loop over the body as the claim words it: a marker line records the
\* number of lines retained so far plus one and is dropped, any other line
\* is retained
RECURSIVE MarkerScan(_, _, _, _)
MarkerScan(lines, marker, kept, nums) ==
    IF lines = <<>> THEN [kept |-> kept, nums |-> nums]
    ELSE IF \E i \in 1..Len(lines[1]) : lines[1][i] = marker
    THEN MarkerScan(Tail(lines), marker, kept, Append(nums, Len(kept) + 1))
    ELSE MarkerScan(Tail(lines), marker, Append(kept, lines[1]), nums)

RECURSIVE DropLeadingBlank(_)
DropLeadingBlank(lines) ==
    IF lines # <<>> /\ (\A i \in 1..Len(lines[1]) : lines[1][i] \in {SP, TAB})
    THEN DropLeadingBlank(Tail(lines))
    ELSE lines

\* recorded numbers as they stand in the attribute: decimal, one blank between
RECURSIVE NumberList(_)
NumberList(nums) ==
    IF nums = <<>> THEN <<>>
    ELSE <<ToString(nums[1])>>
         \o (IF Len(nums) > 1 THEN <<SP>> ELSE <<>>)
         \o NumberList(Tail(nums))

ExpectedMarkerFence(o, body) ==
    LET marker == IF o.language \in {"py", "python"} THEN PyMarker ELSE JsMarker
        r == MarkerScan(DropLeadingBlank(body), marker, <<>>, <<>>)
        hl == IF r.nums = <<>> THEN <<>>
              ELSE <<SP, HlToken, EQ, QUOTE>> \o NumberList(r.nums) \o <<QUOTE>>
    IN  Unlines(<<OpeningLine(o, hl)>> \o r.kept \o <<o.indent \o <<FENCE>>>>)

\* C11: one application of _highlight_code_blocks to a fence without a
\* line-number attribute drops the leading blank lines, removes every marker
\* line, keeps every other line in order, and appends a line-number attribute
\* that lists, in body order and separated by single blanks, for each marker
\* line the number of lines retained before it plus one; markers with no
\* retained line between them record the same number.
C11_MarkerCounting ==
    (ops = <<"highlight">> /\ DOMAIN parts = {"opener", "body"}) =>
        /\ markdown = ExpectedMarkerFence(parts.opener, parts.body)
        /\ (/\ parts.body = <<<<PyMarker>>, <<"x", SP, PyMarker>>, <<"x">>>>
            /\ parts.opener.language = "python") =>
                 Contains(markdown, <<HlToken, EQ, QUOTE, "1", SP, "1", QUOTE, NL, "x", NL>>)

\* two markers with nothing retained between them, then a plain line: both
\* markers have recorded 1
C11_Witness ==
    /\ ops = <<"highlight">>
    /\ DOMAIN parts = {"opener", "body"}
    /\ parts.body = <<<<PyMarker>>, <<"x", SP, PyMarker>>, <<"x">>>>
    /\ parts.opener.language = "python"
    /\ markdown = <<FENCE, "python", SP, HlToken, EQ, QUOTE, "1", SP, "1", QUOTE, NL,
                    "x", NL, FENCE, NL>>

\* a matched fence that has neither a line-number attribute nor a marker
\* comment in its body
PlainFence(m) ==
    /\ ~Contains(m.attributes, <<HlToken>>)
    /\ \A i \in 1..Len(m.code) : m.code[i] # comment_syntax(m.language)

\* C12 as claimed: when no matched fence of the text has a line-number
\* attribute or a marker comment, _highlight_code_blocks returns the text
\* byte-identical; and whatever the fences hold, the text before the first
\* match and the text after the last match are unchanged.
C12_PlainFenceUnchanged ==
    ops = <<"highlight">> =>
        LET ms == FenceFinditer(prev, 1)
            n == Len(ms)
        IN  /\ (\A i \in 1..n : PlainFence(ms[i])) => markdown = prev
            /\ n > 0 =>
                  /\ Len(markdown) >= ms[1].start - 1
                  /\ SubSeq(markdown, 1, ms[1].start - 1)
                         = SubSeq(prev, 1, ms[1].start - 1)
                  /\ IsSuffix(SubSeq(prev, ms[n].stop + 1, Len(prev)), markdown)

====
